---- MODULE Spec2Model ----
(***************************************************************************)
(* Model of the AVwxHUD display controller (src/src/display/controller.py) *)
(* driving a display sink (src/src/display/simulator.py or                 *)
(* src/src/display/matrix_display.py) from a weather data source           *)
(* (src/src/weather/weather_fetcher.py).                                   *)
(*                                                                         *)
(* Spec follows one execution of DisplayController.run(): the startup      *)
(* frame, the 2 second hold, the initial update(), then the tick loop      *)
(* check_events -> update -> render -> tick, the KeyboardInterrupt handler *)
(* and the finally block.  The data source is taken at its declared        *)
(* interface, Optional[Dict]: each call returns None or a snapshot.        *)
(*                                                                         *)
(* The renderer (src/src/graphics/renderer.py) and get_weather_icon        *)
(* (src/src/weather/weather_fetcher.py) are functions of their arguments;  *)
(* they are modelled as operators, and the specifications SizeSpec,        *)
(* TimeSpec, TafSpec, MetarSpec, IconSpec, PairSpec, StampSpec and         *)
(* TextSpec apply them to bounded sets of arguments, recording each        *)
(* application in the variable call.                                       *)
(*                                                                         *)
(* ApiSpec takes the controller's methods update(), render() and           *)
(* set_airport() in any order; FetcherSpec is run() with WeatherFetcher's  *)
(* get_metar, over the outcomes of its HTTP request, as the data source.   *)
(***************************************************************************)
EXTENDS Integers, Naturals, Sequences, FiniteSets, TLC

\* ---------------------------------------------------------------- bounds
\* largest update_interval (seconds) the controller is constructed with
MaxInterval == 2
\* seconds of wall clock the model lets pass after the process starts
ClockSpan == 3
\* distinct snapshots get_metar can return
NumSnapshots == 1
\* distinct forecasts get_taf can return
NumTafs == 1
\* cap of the history counter `stalled`
MaxStall == 1
\* display widths and heights are 16, 32, ... up to 16 * MaxSizeUnits
MaxSizeUnits == 5
\* longest start-time string given to _convert_to_cst_24hr
MaxTimeLen == 4
\* longest forecast list given to create_taf_display
MaxPeriods == 6
\* longest condition list given to get_weather_icon
MaxConds == 3
\* largest width and height of the image _draw_icon stamps on
MaxBufSide == 3
\* longest text given to _draw_text
MaxTextLen == 3

\* ------------------------------------------------------ program constants
\* render(): "if self.mode_timer >= 150"
ModeTicks == 150
\* render(): "(self.animation_frame + 1) % 60"
AnimFrames == 60
\* run(): "time.sleep(2)"
HoldSeconds == 2
\* Python None, the value of "no snapshot" / "no forecast"
None == 0

Snapshots == 1..NumSnapshots
Tafs == 1..NumTafs
MetarResults == {None} \cup Snapshots
TafResults == {None} \cup Tafs
Intervals == 1..MaxInterval
\* time.time() is seconds since the epoch: far beyond any update_interval
ClockStart == MaxInterval
MaxClock == ClockStart + ClockSpan
\* the two display sinks of the repository
Sinks == {"simulator", "matrix"}

Min(a, b) == IF a < b THEN a ELSE b

\* hasattr(self.display, 'check_events' / 'tick' / 'close'):
\* SimulatorDisplay defines all three, MatrixDisplay none of them
HasCheckEvents(s) == s = "simulator"
HasTick(s) == s = "simulator"
HasClose(s) == s = "simulator"

VARIABLES
    pc,               \* position inside run()
    airport_code,     \* self.airport_code
    sink,             \* which display the controller was constructed with
    update_interval,  \* self.update_interval
    clock,            \* time.time(), whole seconds
    current_weather,  \* self.current_weather
    current_taf,      \* self.current_taf
    last_update,      \* self.last_update
    animation_frame,  \* self.animation_frame
    display_mode,     \* self.display_mode, 0 = METAR, 1 = TAF
    mode_timer,       \* self.mode_timer
    shown,            \* what the sink shows: the last show_image()/clear()
    closed,           \* display.close() was called
    \* ---- history variables (observations, never read by the program)
    firstShown,       \* the first thing ever given to the sink
    ops,              \* operations of the current tick (of the initial update before the first)
    fetched,          \* the data source has been called at least once
    lastAttemptAt,    \* clock of the most recent refresh attempt
    everSnapshot,     \* some refresh has returned a snapshot
    goodWeather,      \* the last snapshot the data source returned
    goodTaf,          \* the last forecast the data source returned
    rendered,         \* some loop tick has rendered
    sinceFlip,        \* METAR/TAF frames rendered since the last mode flip
    stalled,          \* ticks after the first snapshot that skipped mode logic
    loadingTicks,     \* ticks rendered while no snapshot was ever obtained
    stopped,          \* check_events() returned False
    interrupted,      \* a KeyboardInterrupt has been delivered
    origin,           \* what assigned current_weather and current_taf: the
                      \* refresh attempt <<airport, clock>>, << >> if none did
    \* ---- the renderer and the weather helpers, taken on their own
    call              \* the last call made to one of them, with its result

prog == <<pc, airport_code, sink, update_interval, clock, current_weather, current_taf,
          last_update, animation_frame, display_mode, mode_timer, shown,
          closed>>
hist == <<firstShown, ops, fetched, lastAttemptAt, everSnapshot, goodWeather,
          goodTaf, rendered, sinceFlip, stalled, loadingTicks, stopped, interrupted, origin>>
vars == <<prog, hist, call>>

\* the airport code the controller is constructed with, as typed, and the
\* one set_airport is called with
StartAirport == <<"k", "j", "f", "k">>
OtherAirport == <<"K", "S", "F", "O">>
\* str.upper() on a string of letters
AirportUpper(code) ==
    [i \in 1..Len(code) |->
        IF code[i] = "k" THEN "K" ELSE IF code[i] = "j" THEN "J"
        ELSE IF code[i] = "f" THEN "F" ELSE IF code[i] = "s" THEN "S"
        ELSE IF code[i] = "o" THEN "O" ELSE code[i]]
NoOrigin == [weather |-> << >>, taf |-> << >>]

\* no call of a renderer or weather helper is being looked at
NoCall == [fn |-> "none"]

\* ------------------------------------------------------------------ Init
\* DisplayController.__init__ followed by entry into run()
Init ==
    /\ pc = "startup"
    /\ airport_code = AirportUpper(StartAirport)
    /\ sink \in Sinks
    /\ update_interval \in Intervals
    /\ clock = ClockStart
    /\ current_weather = None
    /\ current_taf = None
    /\ last_update = 0
    /\ animation_frame = 0
    /\ display_mode = 0
    /\ mode_timer = 0
    /\ shown = "nothing"
    /\ closed = FALSE
    /\ firstShown = "nothing"
    /\ ops = << >>
    /\ fetched = FALSE
    /\ lastAttemptAt = None
    /\ everSnapshot = FALSE
    /\ goodWeather = None
    /\ goodTaf = None
    /\ rendered = FALSE
    /\ sinceFlip = 0
    /\ stalled = 0
    /\ loadingTicks = 0
    /\ stopped = FALSE
    /\ interrupted = FALSE
    /\ origin = NoOrigin
    /\ call = NoCall

\* display.show_image(img): the sink shows the layout; history notes the first
show_image(layout) ==
    /\ shown' = layout
    /\ firstShown' = IF firstShown = "nothing" THEN layout ELSE firstShown

\* ---------------------------------------------------------------- update
\* history kept for one refresh attempt that returned (m, t)
NoteAttempt(m, t) ==
    /\ fetched' = TRUE
    /\ lastAttemptAt' = clock
    /\ everSnapshot' = (everSnapshot \/ m # None)
    /\ goodWeather' = IF m # None THEN m ELSE goodWeather
    /\ goodTaf' = IF t # None THEN t ELSE goodTaf
    /\ loadingTicks' = IF m # None THEN 0 ELSE loadingTicks
    /\ origin' = [weather |-> <<airport_code, clock>>, taf |-> <<airport_code, clock>>]
    /\ ops' = ops \o <<"update", "fetch">>

NoteNoAttempt ==
    /\ ops' = Append(ops, "update")
    /\ UNCHANGED <<fetched, lastAttemptAt, everSnapshot, goodWeather, goodTaf,
                   loadingTicks, origin>>

\* update() as it would be if only a successful fetch reset the refresh timer
update_retryOnFailure(m, t) ==
    IF clock - last_update >= update_interval
    THEN /\ current_weather' = m
         /\ current_taf' = t
         /\ last_update' = IF m # None THEN clock ELSE last_update
         /\ NoteAttempt(m, t)
    ELSE /\ UNCHANGED <<current_weather, current_taf, last_update>>
         /\ NoteNoAttempt

\* DisplayController.update(); m and t are what get_metar and get_taf return
update(m, t) ==
    IF clock - last_update >= update_interval
    THEN /\ current_weather' = m
         /\ current_taf' = t
         /\ last_update' = clock
         /\ NoteAttempt(m, t)
    ELSE /\ UNCHANGED <<current_weather, current_taf, last_update>>
         /\ NoteNoAttempt

\* ---------------------------------------------------------------- render
\* render() as it would be with "mode_timer > 150" for "mode_timer >= 150"
render_offByOne ==
    IF current_weather = None
    THEN /\ show_image("LOADING")
         /\ UNCHANGED <<mode_timer, display_mode, animation_frame, sinceFlip>>
         /\ stalled' = IF everSnapshot THEN Min(stalled + 1, MaxStall)
                       ELSE stalled
         /\ loadingTicks' = IF everSnapshot THEN loadingTicks
                            ELSE Min(loadingTicks + 1, ModeTicks)
    ELSE LET t == mode_timer + 1
             flip == t > ModeTicks
             mode == IF flip THEN 1 - display_mode ELSE display_mode
         IN  /\ mode_timer' = IF flip THEN 0 ELSE t
             /\ display_mode' = mode
             /\ show_image(IF mode = 0 THEN "METAR" ELSE "TAF")
             /\ animation_frame' = (animation_frame + 1) % AnimFrames
             /\ sinceFlip' = IF flip THEN 0 ELSE Min(sinceFlip + 1, ModeTicks)
             /\ UNCHANGED <<stalled, loadingTicks>>

\* render() as it would be with the mode logic placed before the loading check
render_modeLogicFirst ==
    LET t == mode_timer + 1
        flip == t >= ModeTicks
        mode == IF flip THEN 1 - display_mode ELSE display_mode
    IN  /\ mode_timer' = IF flip THEN 0 ELSE t
        /\ display_mode' = mode
        /\ sinceFlip' = IF flip THEN 0 ELSE Min(sinceFlip + 1, ModeTicks)
        /\ IF current_weather = None
           THEN /\ show_image("LOADING")
                /\ UNCHANGED animation_frame
                /\ stalled' = IF everSnapshot THEN Min(stalled + 1, MaxStall)
                              ELSE stalled
                /\ loadingTicks' = IF everSnapshot THEN loadingTicks
                                   ELSE Min(loadingTicks + 1, ModeTicks)
           ELSE /\ show_image(IF mode = 0 THEN "METAR" ELSE "TAF")
                /\ animation_frame' = (animation_frame + 1) % AnimFrames
                /\ UNCHANGED <<stalled, loadingTicks>>

\* DisplayController.render()
render ==
    IF current_weather = None
    THEN \* loading screen, then return: no mode logic, no animation step
         /\ show_image("LOADING")
         /\ UNCHANGED <<mode_timer, display_mode, animation_frame, sinceFlip>>
         /\ stalled' = IF everSnapshot THEN Min(stalled + 1, MaxStall)
                       ELSE stalled
         /\ loadingTicks' = IF everSnapshot THEN loadingTicks
                            ELSE Min(loadingTicks + 1, ModeTicks)
    ELSE LET t == mode_timer + 1
             flip == t >= ModeTicks
             mode == IF flip THEN 1 - display_mode ELSE display_mode
         IN  /\ mode_timer' = IF flip THEN 0 ELSE t
             /\ display_mode' = mode
             /\ show_image(IF mode = 0 THEN "METAR" ELSE "TAF")
             /\ animation_frame' = (animation_frame + 1) % AnimFrames
             /\ sinceFlip' = IF flip THEN 0 ELSE Min(sinceFlip + 1, ModeTicks)
             /\ UNCHANGED <<stalled, loadingTicks>>

\* ------------------------------------------------------------------- run
\* the start of run() as it would be without the startup frame
Startup_noSplash ==
    /\ pc = "startup"
    /\ pc' = "hold"
    /\ UNCHANGED <<call, airport_code, sink, update_interval, clock, current_weather, current_taf,
                   last_update, animation_frame, display_mode, mode_timer,
                   shown, closed>>
    /\ UNCHANGED hist

\* run(): create_startup_display("AVWX HUD"); display.show_image(...)
Startup ==
    /\ pc = "startup"
    /\ show_image("AVWX HUD")
    /\ pc' = "hold"
    /\ UNCHANGED <<call, airport_code, origin, sink, update_interval, clock, current_weather, current_taf,
                   last_update, animation_frame, display_mode, mode_timer,
                   closed, ops, fetched, lastAttemptAt, everSnapshot, goodWeather,
                   goodTaf, rendered, sinceFlip, stalled, loadingTicks,
                   stopped, interrupted>>

\* run(): time.sleep(2)
Hold ==
    /\ pc = "hold"
    /\ clock' = Min(clock + HoldSeconds, MaxClock)
    /\ pc' = "initial_update"
    /\ UNCHANGED <<call, airport_code, sink, update_interval, current_weather, current_taf,
                   last_update, animation_frame, display_mode, mode_timer,
                   shown, closed>>
    /\ UNCHANGED hist

\* run(): the "Initial weather fetch", self.update() before the loop
InitialUpdate ==
    /\ pc = "initial_update"
    /\ \E m \in MetarResults, t \in TafResults : update(m, t)
    /\ pc' = "loop"
    /\ UNCHANGED <<call, airport_code, sink, update_interval, clock, animation_frame, display_mode,
                   mode_timer, shown, closed, firstShown, rendered, sinceFlip,
                   stalled, stopped, interrupted>>

\* the stop poll as it would be without the "break": running = False only
\* takes effect at the next evaluation of the loop condition
CheckEvents_noBreak ==
    /\ pc = "loop"
    /\ IF stopped
       THEN /\ pc' = "finally"
            /\ UNCHANGED <<ops, stopped>>
       ELSE IF HasCheckEvents(sink)
       THEN \E ok \in BOOLEAN :
               /\ ops' = <<"poll">>
               /\ stopped' = ~ok
               /\ pc' = "update"
       ELSE /\ ops' = << >>
            /\ UNCHANGED stopped
            /\ pc' = "update"
    /\ UNCHANGED <<call, airport_code, origin, sink, update_interval, clock, current_weather, current_taf,
                   last_update, animation_frame, display_mode, mode_timer,
                   shown, closed, firstShown, fetched, lastAttemptAt,
                   everSnapshot, goodWeather, goodTaf, rendered, sinceFlip,
                   stalled, loadingTicks, interrupted>>

\* run(): top of "while running": the check_events() poll, when the sink has one
CheckEvents ==
    /\ pc = "loop"
    /\ IF HasCheckEvents(sink)
       THEN \E ok \in BOOLEAN :
               /\ ops' = <<"poll">>
               /\ stopped' = ~ok
               /\ pc' = IF ok THEN "update" ELSE "finally"
       ELSE /\ ops' = << >>
            /\ UNCHANGED stopped
            /\ pc' = "update"
    /\ UNCHANGED <<call, airport_code, origin, sink, update_interval, clock, current_weather, current_taf,
                   last_update, animation_frame, display_mode, mode_timer,
                   shown, closed, firstShown, fetched, lastAttemptAt,
                   everSnapshot, goodWeather, goodTaf, rendered, sinceFlip,
                   stalled, loadingTicks, interrupted>>

\* run(): self.update() inside the loop
LoopUpdate ==
    /\ pc = "update"
    /\ \E m \in MetarResults, t \in TafResults : update(m, t)
    /\ pc' = "render"
    /\ UNCHANGED <<call, airport_code, sink, update_interval, clock, animation_frame, display_mode,
                   mode_timer, shown, closed, firstShown, rendered, sinceFlip,
                   stalled, stopped, interrupted>>

\* run(): self.render() inside the loop
LoopRender ==
    /\ pc = "render"
    /\ render
    /\ rendered' = TRUE
    /\ ops' = ops \o <<"render", "present">>
    /\ pc' = "pace"
    /\ UNCHANGED <<call, airport_code, origin, sink, update_interval, clock, current_weather, current_taf,
                   last_update, closed, fetched, lastAttemptAt, everSnapshot,
                   goodWeather, goodTaf, stopped, interrupted>>

\* the end of a tick as it would be if the loop ran its body only once
Pace_leavesLoop ==
    /\ pc = "pace"
    /\ \E d \in 0..1 : clock' = Min(clock + d, MaxClock)
    /\ ops' = Append(ops, "pace")
    /\ pc' = "finally"
    /\ UNCHANGED <<call, airport_code, origin, sink, update_interval, current_weather, current_taf,
                   last_update, animation_frame, display_mode, mode_timer,
                   shown, closed, firstShown, fetched, lastAttemptAt,
                   everSnapshot, goodWeather, goodTaf, rendered, sinceFlip,
                   stalled, loadingTicks, stopped, interrupted>>

\* run(): display.tick(30), or time.sleep(1/30) when the sink has no tick();
\* a thirtieth of a second passes, which may carry the clock to the next second
Pace ==
    /\ pc = "pace"
    /\ \E d \in 0..1 : clock' = Min(clock + d, MaxClock)
    /\ ops' = Append(ops, "pace")
    /\ pc' = "loop"
    /\ UNCHANGED <<call, airport_code, origin, sink, update_interval, current_weather, current_taf,
                   last_update, animation_frame, display_mode, mode_timer,
                   shown, closed, firstShown, fetched, lastAttemptAt,
                   everSnapshot, goodWeather, goodTaf, rendered, sinceFlip,
                   stalled, loadingTicks, stopped, interrupted>>

\* A KeyboardInterrupt arrives.  Inside the try block it is caught by
\* "except KeyboardInterrupt" and run() goes on to the finally block; before
\* the try block (startup frame, hold, initial update) and inside the finally
\* block nothing catches it and it leaves run().
Interrupt ==
    /\ pc \in {"startup", "hold", "initial_update", "loop", "update", "render",
               "pace", "finally"}
    /\ pc' = IF pc \in {"loop", "update", "render", "pace"}
             THEN "finally" ELSE "raised"
    /\ interrupted' = TRUE
    /\ UNCHANGED <<call, airport_code, origin, sink, update_interval, clock, current_weather, current_taf,
                   last_update, animation_frame, display_mode, mode_timer,
                   shown, closed, firstShown, ops, fetched, lastAttemptAt,
                   everSnapshot, goodWeather, goodTaf, rendered, sinceFlip,
                   stalled, loadingTicks, stopped>>

\* run(): finally: self.display.clear()
Clear ==
    /\ pc = "finally"
    /\ shown' = "cleared"
    /\ pc' = "close"
    /\ UNCHANGED <<call, airport_code, sink, update_interval, clock, current_weather, current_taf,
                   last_update, animation_frame, display_mode, mode_timer,
                   closed>>
    /\ UNCHANGED hist

\* run(): finally: self.display.close() when the sink has one; run() returns
Close ==
    /\ pc = "close"
    /\ closed' = HasClose(sink)
    /\ pc' = "returned"
    /\ UNCHANGED <<call, airport_code, sink, update_interval, clock, current_weather, current_taf,
                   last_update, animation_frame, display_mode, mode_timer,
                   shown>>
    /\ UNCHANGED hist

Next ==
    \/ Startup
    \/ Hold
    \/ InitialUpdate
    \/ CheckEvents
    \/ LoopUpdate
    \/ LoopRender
    \/ Pace
    \/ Interrupt
    \/ Clear
    \/ Close

Spec == Init /\ [][Next]_vars

\* run() is sequential code on one thread: the statement it has reached is
\* executed.  An interrupt may come or not, so Interrupt gets no fairness.
FairSpec ==
    /\ Spec
    /\ WF_vars(Startup) /\ WF_vars(Hold) /\ WF_vars(InitialUpdate)
    /\ WF_vars(CheckEvents) /\ WF_vars(LoopUpdate) /\ WF_vars(LoopRender)
    /\ WF_vars(Pace) /\ WF_vars(Clear) /\ WF_vars(Close)

\* the positions inside the "while running" loop
LoopPcs == {"loop", "update", "render", "pace"}

\* the controller as constructed, before run(): where the specifications of
\* the renderer and weather helpers start
Constructed == Init /\ sink = "matrix" /\ update_interval = MaxInterval

\* ======================================================== method calls
\* ApiSpec: the controller's methods update(), render() and set_airport()
\* called in any order by a program that holds the controller, and time
\* passing between calls.  ops holds the last method called; of the other
\* history variables only those render() reads are kept up.

\* set_airport as it would be without "self.current_weather = None"
set_airport_keepsWeather(code) ==
    /\ airport_code' = AirportUpper(code)
    /\ last_update' = 0
    /\ UNCHANGED <<current_weather, origin>>

\* DisplayController.set_airport
set_airport(code) ==
    /\ airport_code' = AirportUpper(code)
    /\ current_weather' = None
    /\ last_update' = 0
    /\ origin' = [origin EXCEPT !.weather = << >>]

\* a call of update(); get_metar and get_taf return m and t for airport_code:
\* None or the airport's report
ApiUpdate ==
    /\ \E m \in {None, 1}, t \in {None, 1} :
          IF clock - last_update >= update_interval
          THEN /\ current_weather' = m
               /\ current_taf' = t
               /\ last_update' = clock
               /\ everSnapshot' = (everSnapshot \/ m # None)
               /\ loadingTicks' = IF m # None THEN 0 ELSE loadingTicks
               /\ origin' = [weather |-> <<airport_code, clock>>,
                             taf |-> <<airport_code, clock>>]
               /\ ops' = <<"update", "fetch">>
          ELSE /\ ops' = <<"update">>
               /\ UNCHANGED <<current_weather, current_taf, last_update,
                              everSnapshot, loadingTicks, origin>>
    /\ UNCHANGED <<call, pc, airport_code, sink, update_interval, clock,
                   animation_frame, display_mode, mode_timer, shown, closed,
                   firstShown, fetched, lastAttemptAt, goodWeather, goodTaf,
                   rendered, sinceFlip, stalled, stopped, interrupted>>

\* a call of render()
ApiRender ==
    /\ render
    /\ rendered' = TRUE
    /\ ops' = <<"render">>
    /\ UNCHANGED <<call, pc, airport_code, origin, sink, update_interval, clock,
                   current_weather, current_taf, last_update, closed, fetched,
                   lastAttemptAt, everSnapshot, goodWeather, goodTaf, stopped,
                   interrupted>>

\* a call of set_airport()
ApiSetAirport ==
    /\ \E code \in {StartAirport, OtherAirport} : set_airport(code)
    /\ ops' = <<"set_airport">>
    /\ UNCHANGED <<call, pc, sink, update_interval, clock, current_taf,
                   animation_frame, display_mode, mode_timer, shown, closed,
                   firstShown, fetched, lastAttemptAt, everSnapshot, goodWeather,
                   goodTaf, rendered, sinceFlip, stalled, loadingTicks, stopped,
                   interrupted>>

\* a second of wall clock passes between two calls
ApiElapse ==
    /\ clock < MaxClock
    /\ clock' = clock + 1
    /\ UNCHANGED <<call, pc, airport_code, sink, update_interval, current_weather,
                   current_taf, last_update, animation_frame, display_mode,
                   mode_timer, shown, closed>>
    /\ UNCHANGED hist

ApiNext == ApiUpdate \/ ApiRender \/ ApiSetAirport \/ ApiElapse

ApiSpec == Constructed /\ [][ApiNext]_vars

\* ======================================================== the fetcher
\* What requests.get(...) can do: raise (timeout, no network), or give a
\* response with a status code and a body.  The bodies: a METAR report as a
\* JSON object, an empty JSON object, a JSON object with a field of the wrong
\* shape ("time": null), JSON that is not an object, and text that is not JSON
HttpStatuses == {200, 401, 404, 500}
HttpBodies == {"report", "empty_object", "bad_field", "not_object", "not_json"}
HttpOutcomes ==
    {[kind |-> "exception", status |-> 0, body |-> "none"]}
        \cup {[kind |-> "response", status |-> st, body |-> b] :
                 st \in HttpStatuses, b \in HttpBodies}

\* the dictionaries get_metar can return, by their keys
ParsedKeys ==
    {"station", "time", "flight_rules", "raw", "temperature", "dewpoint",
     "wind_direction", "wind_speed", "visibility", "ceiling", "altimeter",
     "clouds", "conditions"}
DemoDict == [source |-> "demo", keys |-> ParsedKeys]
NoneResult == [source |-> "none", keys |-> {}]

\* WeatherFetcher._parse_metar(data): the dictionary built, or the error
\* dictionary of its except branch; for data that is not a dict the except
\* branch's own data.get raises, and the exception leaves _parse_metar
parse_metar(body) ==
    IF body \in {"report", "empty_object"}
    THEN [raised |-> FALSE, dict |-> [source |-> "parsed", keys |-> ParsedKeys]]
    ELSE IF body = "bad_field"
    THEN [raised |-> FALSE,
          dict |-> [source |-> "parse_error", keys |-> {"station", "error", "raw"}]]
    ELSE [raised |-> TRUE, dict |-> NoneResult]

\* get_metar as its docstring has it: "or None if error"
get_metar_noneOnError(outcome) ==
    IF outcome.kind = "exception" THEN NoneResult
    ELSE IF outcome.status = 200
    THEN IF outcome.body = "not_json" THEN NoneResult
         ELSE IF parse_metar(outcome.body).raised THEN NoneResult
         ELSE parse_metar(outcome.body).dict
    ELSE NoneResult

\* WeatherFetcher.get_metar for one outcome of the HTTP request
get_metar(outcome) ==
    IF outcome.kind = "exception" THEN DemoDict
    ELSE IF outcome.status = 200
    THEN IF outcome.body = "not_json" THEN DemoDict
         ELSE IF parse_metar(outcome.body).raised THEN DemoDict
         ELSE parse_metar(outcome.body).dict
    ELSE DemoDict

\* what the controller sees of a dictionary in current_weather: update() and
\* render() test its truth value only; an empty dictionary is false like None
SnapshotOf(d) == IF d.keys = {} THEN None ELSE 1

\* run(): the initial self.update(), with WeatherFetcher as the data source
FetcherInitialUpdate ==
    /\ pc = "initial_update"
    /\ \E o \in HttpOutcomes, t \in TafResults : update(SnapshotOf(get_metar(o)), t)
    /\ pc' = "loop"
    /\ UNCHANGED <<call, airport_code, sink, update_interval, clock, animation_frame,
                   display_mode, mode_timer, shown, closed, firstShown, rendered,
                   sinceFlip, stalled, stopped, interrupted>>

\* run(): self.update() inside the loop, with WeatherFetcher as the data source
FetcherLoopUpdate ==
    /\ pc = "update"
    /\ \E o \in HttpOutcomes, t \in TafResults : update(SnapshotOf(get_metar(o)), t)
    /\ pc' = "render"
    /\ UNCHANGED <<call, airport_code, sink, update_interval, clock, animation_frame,
                   display_mode, mode_timer, shown, closed, firstShown, rendered,
                   sinceFlip, stalled, stopped, interrupted>>

FetcherNext ==
    \/ Startup
    \/ Hold
    \/ FetcherInitialUpdate
    \/ CheckEvents
    \/ FetcherLoopUpdate
    \/ LoopRender
    \/ Pace
    \/ Interrupt
    \/ Clear
    \/ Close

\* run() with the repository's WeatherFetcher behind update()
FetcherSpec == Init /\ [][FetcherNext]_vars

\* ============================================================== sizes
\* DisplayRenderer.__init__(self, width: int = 64, height: int = 64)
RendererDefaultWidth == 64
RendererDefaultHeight == 64
\* the widths and heights main() and simulator.py hand to the display
ConfigSizes == {16 * k : k \in 1..MaxSizeUnits}
\* the layouts the controller presents
Layouts == {"AVWX HUD", "LOADING", "METAR", "TAF"}

\* DisplayController.__init__: "self.renderer = DisplayRenderer()"; the
\* renderer is built with its defaults whatever the display's dimensions
ControllerRendererSize(display_width, display_height) ==
    <<RendererDefaultWidth, RendererDefaultHeight>>

\* every create_*_display: Image.new('RGB', (self.width, self.height), ...)
BufferSize(renderer_size) == renderer_size

\* main()/simulator.py build a display of w x h and a controller for it; the
\* controller presents a layout: display.show_image(img)
PresentFrame ==
    /\ \E s \in Sinks, w \in ConfigSizes, h \in ConfigSizes, l \in Layouts :
          LET size == BufferSize(ControllerRendererSize(w, h))
          IN  call' = [fn |-> "show_image", sink |-> s, layout |-> l,
                       width |-> w, height |-> h,
                       img_width |-> size[1], img_height |-> size[2]]
    /\ UNCHANGED <<prog, hist>>

SizeSpec == Constructed /\ [][PresentFrame]_vars

\* ======================================================== time strings
\* A Python str is modelled as a sequence of one-character strings.
DigitChars == <<"0", "1", "2", "3", "4", "5", "6", "7", "8", "9">>
IsDigit(c) == \E d \in 0..9 : DigitChars[d + 1] = c
DigitVal(c) == CHOOSE d \in 0..9 : DigitChars[d + 1] = c
IsSpace(c) == c = " "
\* the characters start-time strings are built from in TimeSpec
TimeChars == {"0", "1", "2", "3", "5", "8", "9", "+", "-", " ", "A"}

\* all strings over chars with at most n characters
RECURSIVE StringsUpTo(_, _)
StringsUpTo(chars, n) ==
    IF n = 0 THEN {<< >>}
    ELSE LET shorter == StringsUpTo(chars, n - 1)
         IN  shorter \cup {Append(t, c) : t \in shorter, c \in chars}

TimeStrings == StringsUpTo(TimeChars, MaxTimeLen)

\* Python's int() on a two-character string: surrounding whitespace is
\* stripped and one leading sign is accepted; ok = FALSE is ValueError
PyInt2(t) ==
    LET a == t[1]
        b == t[2]
    IN  IF IsDigit(a) /\ IsDigit(b)
        THEN [ok |-> TRUE, val |-> 10 * DigitVal(a) + DigitVal(b)]
        ELSE IF a = "+" /\ IsDigit(b) THEN [ok |-> TRUE, val |-> DigitVal(b)]
        ELSE IF a = "-" /\ IsDigit(b) THEN [ok |-> TRUE, val |-> 0 - DigitVal(b)]
        ELSE IF IsSpace(a) /\ IsDigit(b) THEN [ok |-> TRUE, val |-> DigitVal(b)]
        ELSE IF IsDigit(a) /\ IsSpace(b) THEN [ok |-> TRUE, val |-> DigitVal(a)]
        ELSE [ok |-> FALSE, val |-> 0]

\* the decimal digits of a natural number, most significant first
RECURSIVE Decimal(_)
Decimal(n) ==
    IF n < 10 THEN <<DigitChars[n + 1]>>
    ELSE Append(Decimal(n \div 10), DigitChars[(n % 10) + 1])

\* Python's format spec "02d": sign, then zeros up to a total width of 2
Format02d(n) ==
    IF n < 0 THEN <<"-">> \o Decimal(0 - n)
    ELSE IF n < 10 THEN <<"0">> \o Decimal(n)
    ELSE Decimal(n)

\* _convert_to_cst_24hr as it would be without "if cst_hour < 0: cst_hour += 24"
convert_to_cst_24hr_noWrap(utc_time_str) ==
    IF Len(utc_time_str) < 4 THEN << >>
    ELSE LET utc_hour == PyInt2(SubSeq(utc_time_str, 1, 2))
             utc_min == PyInt2(SubSeq(utc_time_str, 3, 4))
         IN  IF ~utc_hour.ok \/ ~utc_min.ok THEN << >>
             ELSE Format02d(utc_hour.val - 6) \o <<":">> \o Format02d(utc_min.val)

\* DisplayRenderer._convert_to_cst_24hr
convert_to_cst_24hr(utc_time_str) ==
    IF Len(utc_time_str) < 4 THEN << >>
    ELSE LET utc_hour == PyInt2(SubSeq(utc_time_str, 1, 2))
             utc_min == PyInt2(SubSeq(utc_time_str, 3, 4))
         IN  IF ~utc_hour.ok \/ ~utc_min.ok THEN << >>
             ELSE LET cst_hour == IF utc_hour.val - 6 < 0
                                  THEN utc_hour.val - 6 + 24
                                  ELSE utc_hour.val - 6
                  IN  Format02d(cst_hour) \o <<":">> \o Format02d(utc_min.val)

\* one call of _convert_to_cst_24hr; a behaviour of TimeSpec is a single call
ConvertTime ==
    /\ call = NoCall
    /\ \E t \in TimeStrings :
          call' = [fn |-> "_convert_to_cst_24hr", utc_time_str |-> t,
                   result |-> convert_to_cst_24hr(t)]
    /\ UNCHANGED <<prog, hist>>

TimeSpec == Constructed /\ [][ConvertTime]_vars

\* ======================================================== drawing
\* rows every glyph of the 5x7 font occupies
GlyphRows == 7
\* columns a character advances the pen by: "x_offset += 6 * scale"
GlyphAdvance == 6

Lowercase == <<"a", "b", "c", "d", "e", "f", "g", "h", "i", "j", "k", "l", "m",
               "n", "o", "p", "q", "r", "s", "t", "u", "v", "w", "x", "y", "z">>
Uppercase == <<"A", "B", "C", "D", "E", "F", "G", "H", "I", "J", "K", "L", "M",
               "N", "O", "P", "Q", "R", "S", "T", "U", "V", "W", "X", "Y", "Z">>
\* str.upper()
Upper(c) == IF \E i \in 1..26 : Lowercase[i] = c
            THEN Uppercase[CHOOSE i \in 1..26 : Lowercase[i] = c]
            ELSE c
UpperStr(t) == [i \in 1..Len(t) |-> Upper(t[i])]
\* t[:n]
Take(t, n) == SubSeq(t, 1, Min(n, Len(t)))

VFR == <<"V", "F", "R">>
MVFR == <<"M", "V", "F", "R">>
IFR == <<"I", "F", "R">>
LIFR == <<"L", "I", "F", "R">>
UNKNOWN == <<"U", "N", "K", "N", "O", "W", "N">>
UNKN == <<"U", "N", "K", "N">>

Green == <<0, 255, 0>>
Blue == <<0, 0, 255>>
Red == <<255, 0, 0>>
Magenta == <<255, 0, 255>>
Gray == <<128, 128, 128>>

\* _get_flight_rules_color with the VFR and MVFR entries of the table swapped
get_flight_rules_color_swapped(flight_rules) ==
    LET key == UpperStr(flight_rules)
    IN  IF key = VFR THEN Blue
        ELSE IF key = MVFR THEN Green
        ELSE IF key = IFR THEN Red
        ELSE IF key = LIFR THEN Magenta
        ELSE Gray

\* DisplayRenderer._get_flight_rules_color
get_flight_rules_color(flight_rules) ==
    LET key == UpperStr(flight_rules)
    IN  IF key = VFR THEN Green
        ELSE IF key = MVFR THEN Blue
        ELSE IF key = IFR THEN Red
        ELSE IF key = LIFR THEN Magenta
        ELSE Gray

\* ImageDraw.rectangle as it would be if the second corner were exclusive
rectangle_exclusive(what, x0, y0, x1, y1, color, w, h) ==
    [what |-> what, text |-> << >>, x |-> x0, y |-> y0, color |-> color,
     rows |-> {r \in y0..(y1 - 1) : 0 <= r /\ r < h},
     cols |-> {c \in x0..(x1 - 1) : 0 <= c /\ c < w}]

\* ImageDraw.rectangle([(x0, y0), (x1, y1)], fill=color): both corners are
\* inside the rectangle, and what falls outside the w x h image is clipped
rectangle(what, x0, y0, x1, y1, color, w, h) ==
    [what |-> what, text |-> << >>, x |-> x0, y |-> y0, color |-> color,
     rows |-> {r \in y0..y1 : 0 <= r /\ r < h},
     cols |-> {c \in x0..x1 : 0 <= c /\ c < w}]

\* _draw_text as it would be without the test "0 <= draw_y < self.height"
draw_text_noRowCheck(what, text, x, y, color, w, h) ==
    [what |-> what, text |-> text, x |-> x, y |-> y, color |-> color,
     rows |-> IF text = << >> THEN {} ELSE y..(y + GlyphRows - 1),
     cols |-> {c \in x..(x + GlyphAdvance * Len(text) - 2) : 0 <= c /\ c < w}]

\* DisplayRenderer._draw_text: the rows and columns the glyph cells of text
\* cover from (x, y), a pixel being written only inside the w x h image
draw_text(what, text, x, y, color, w, h) ==
    [what |-> what, text |-> text, x |-> x, y |-> y, color |-> color,
     rows |-> IF text = << >> THEN {}
              ELSE {r \in y..(y + GlyphRows - 1) : 0 <= r /\ r < h},
     cols |-> {c \in x..(x + GlyphAdvance * Len(text) - 2) : 0 <= c /\ c < w}]

\* Python's format spec "03d"
Format03d(n) ==
    IF n < 0 THEN <<"-">> \o (IF 0 - n < 10 THEN <<"0">> ELSE << >>) \o Decimal(0 - n)
    ELSE IF n < 10 THEN <<"0", "0">> \o Decimal(n)
    ELSE IF n < 100 THEN <<"0">> \o Decimal(n)
    ELSE Decimal(n)

\* ======================================================== forecast layout
\* row of the first period block: "y = 11"
FirstBlockRow == 11
\* rows per period block: "y += 10"
BlockHeight == 10
\* "forecast[:5]"
MaxBlocks == 5

\* A forecast period: a missing or None value is << >>, a present one <<v>>;
\* flight_rules and start_time carry the defaults of period.get
PeriodFull ==
    [flight_rules |-> MVFR, start_time |-> <<"0", "3", "0", "0">>,
     wind_direction |-> <<270>>, wind_speed |-> <<8>>, ceiling |-> <<4500>>]
\* an item as _parse_taf builds it: no start_time, no ceiling
PeriodParsed ==
    [flight_rules |-> IFR, start_time |-> << >>,
     wind_direction |-> <<90>>, wind_speed |-> <<12>>, ceiling |-> << >>]
PeriodEmpty ==
    [flight_rules |-> UNKN, start_time |-> << >>,
     wind_direction |-> << >>, wind_speed |-> << >>, ceiling |-> << >>]
PeriodKinds == {PeriodFull, PeriodParsed, PeriodEmpty}

Forecasts == StringsUpTo(PeriodKinds, MaxPeriods)
\* taf_data: None, {}, a dict without the key 'forecast', a dict with it
TafData ==
    {[kind |-> k, forecast |-> << >>] : k \in {"None", "empty_dict", "no_forecast_key"}}
        \cup {[kind |-> "dict", forecast |-> f] : f \in Forecasts}
Stations == {<<"K", "A", "T", "L">>, <<"K", "A", "T", "L", "X">>}

\* the body of "for i, period in enumerate(forecast[:5])" from row y on
RECURSIVE taf_blocks(_, _, _, _)
taf_blocks(periods, y, w, h) ==
    IF periods = << >> \/ y + BlockHeight > h THEN << >>
    ELSE LET period == Head(periods)
             time_str == convert_to_cst_24hr(period.start_time)
         IN  <<rectangle("block_bar", 0, y, 1, y + 9,
                         get_flight_rules_color(period.flight_rules), w, h)>>
             \o (IF time_str # << >>
                 THEN <<draw_text("time", time_str, 3, y, <<200, 200, 255>>, w, h)>>
                 ELSE << >>)
             \o (IF period.wind_direction # << >> /\ period.wind_speed # << >>
                 THEN <<draw_text("wind",
                                  <<"W">> \o Format03d(period.wind_direction[1])
                                      \o <<"/">> \o Format02d(period.wind_speed[1]),
                                  3, y + 5, <<100, 200, 255>>, w, h)>>
                 ELSE << >>)
             \o (IF period.ceiling # << >>
                 THEN <<draw_text("ceiling",
                                  <<"C">> \o Format03d(period.ceiling[1] \div 100),
                                  38, y + 5, <<255, 150, 255>>, w, h)>>
                 ELSE << >>)
             \o taf_blocks(Tail(periods), y + BlockHeight, w, h)

\* what create_taf_display draws before it looks at the forecast
taf_header(station, flight_rules, w, h) ==
    << rectangle("header_bar", 0, 0, w, 2, get_flight_rules_color(flight_rules), w, h),
       draw_text("label", <<"T", "A", "F">>, 2, 3, <<255, 255, 255>>, w, h),
       draw_text("station", Take(station, 4), w - 26, 3, <<200, 200, 200>>, w, h) >>

\* create_taf_display as it would be with the test "if not taf_data:" only
create_taf_display_onlyNone(station, taf_data, flight_rules, w, h) ==
    IF taf_data.kind \in {"None", "empty_dict"}
    THEN taf_header(station, flight_rules, w, h)
            \o <<draw_text("message", <<"N", "O", " ", "T", "A", "F">>, 2, 20,
                           <<150, 150, 150>>, w, h)>>
    ELSE taf_header(station, flight_rules, w, h)
            \o taf_blocks(Take(taf_data.forecast, MaxBlocks), FirstBlockRow, w, h)

\* create_taf_display as it would be looping over forecast, not forecast[:5]
create_taf_display_noCap(station, taf_data, flight_rules, w, h) ==
    IF taf_data.kind \in {"None", "empty_dict"} \/ taf_data.forecast = << >>
    THEN taf_header(station, flight_rules, w, h)
            \o <<draw_text("message", <<"N", "O", " ", "T", "A", "F">>, 2, 20,
                           <<150, 150, 150>>, w, h)>>
    ELSE taf_header(station, flight_rules, w, h)
            \o taf_blocks(taf_data.forecast, FirstBlockRow, w, h)

\* DisplayRenderer.create_taf_display: the drawing operations in order
create_taf_display(station, taf_data, flight_rules, w, h) ==
    IF taf_data.kind \in {"None", "empty_dict"} \/ taf_data.forecast = << >>
    THEN taf_header(station, flight_rules, w, h)
            \o <<draw_text("message", <<"N", "O", " ", "T", "A", "F">>, 2, 20,
                           <<150, 150, 150>>, w, h)>>
    ELSE taf_header(station, flight_rules, w, h)
            \o taf_blocks(Take(taf_data.forecast, MaxBlocks), FirstBlockRow, w, h)

\* width, station and category of the snapshot the forecast is drawn with
TafVariants ==
    {[width |-> 64, station |-> <<"K", "A", "T", "L">>, flight_rules |-> VFR],
     [width |-> 32, station |-> <<"K", "A", "T", "L", "X">>, flight_rules |-> UNKNOWN]}

\* one call of create_taf_display on a renderer of height h; a behaviour
\* of TafSpec is a single call
RenderTaf ==
    /\ call = NoCall
    /\ \E h \in ConfigSizes, t \in TafData, v \in TafVariants :
          call' = [fn |-> "create_taf_display", width |-> v.width, height |-> h,
                   station |-> v.station, taf_data |-> t,
                   flight_rules |-> v.flight_rules,
                   ops |-> create_taf_display(v.station, t, v.flight_rules,
                                              v.width, h),
                   outcome |-> "returned"]
    /\ UNCHANGED <<prog, hist>>

TafSpec == Constructed /\ [][RenderTaf]_vars

\* ======================================================== current conditions
\* str(n) for an integer
IntStr(n) == IF n < 0 THEN <<"-">> \o Decimal(0 - n) ELSE Decimal(n)
\* Python's format spec "3d": right-aligned in three columns
Format3d(n) ==
    LET t == IntStr(n)
    IN  IF Len(t) = 1 THEN <<" ", " ">> \o t
        ELSE IF Len(t) = 2 THEN <<" ">> \o t
        ELSE t
\* ' '.join(codes)
RECURSIVE JoinSpace(_)
JoinSpace(codes) ==
    IF codes = << >> THEN << >>
    ELSE IF Len(codes) = 1 THEN codes[1]
    ELSE codes[1] \o <<" ">> \o JoinSpace(Tail(codes))

TSRA == <<"T", "S", "R", "A">>
RA == <<"R", "A">>
BR == <<"B", "R">>
HZ == <<"H", "Z">>

\* The optional fields of a snapshot: None is << >>, a value v is <<v>>;
\* visibility is in tenths of a statute mile
FieldsFull ==
    [temperature |-> <<22>>, dewpoint |-> <<0 - 3>>, wind_speed |-> <<8>>,
     wind_direction |-> <<270>>, visibility |-> <<100>>, ceiling |-> <<4500>>,
     conditions |-> <<RA, BR, HZ>>]
FieldsPartial ==
    [temperature |-> <<5>>, dewpoint |-> << >>, wind_speed |-> <<12>>,
     wind_direction |-> << >>, visibility |-> <<25>>, ceiling |-> << >>,
     conditions |-> <<TSRA>>]
FieldsNone ==
    [temperature |-> << >>, dewpoint |-> << >>, wind_speed |-> << >>,
     wind_direction |-> << >>, visibility |-> << >>, ceiling |-> << >>,
     conditions |-> << >>]
MetarFields == {FieldsFull, FieldsPartial, FieldsNone}

\* flight_rules arguments: the four categories, other letter cases, the
\* controller's default for a missing key, the empty string, other strings
CategoryInputs ==
    {VFR, MVFR, IFR, LIFR, <<"v", "f", "r">>, <<"L", "i", "f", "r">>,
     UNKNOWN, << >>, <<"X", "Y", "Z">>, <<"V", "F", "R", " ">>}

\* DisplayRenderer.create_metar_display: the drawing operations in order
create_metar_display(station, f, flight_rules, w, h) ==
    LET color == get_flight_rules_color(flight_rules)
    IN  << rectangle("header_bar", 0, 0, w, 2, color, w, h),
           draw_text("label", <<"M", "E", "T", "A", "R">>, 2, 3, <<255, 255, 255>>, w, h),
           draw_text("station", Take(station, 4), w - 26, 3, <<200, 200, 200>>, w, h),
           draw_text("badge", Take(flight_rules, 4), 2, 11, color, w, h) >>
        \o (IF f.temperature # << >> /\ f.dewpoint # << >>
            THEN <<draw_text("temperature",
                             <<"T", " ">> \o Format3d(f.temperature[1])
                                 \o <<" ", "D">> \o Format3d(f.dewpoint[1]),
                             2, 19, <<255, 200, 0>>, w, h)>>
            ELSE << >>)
        \o (IF f.wind_speed # << >> /\ f.wind_direction # << >>
            THEN <<draw_text("wind",
                             <<"W">> \o Format03d(f.wind_direction[1]) \o <<"/">>
                                 \o Format02d(f.wind_speed[1]) \o <<"K", "T">>,
                             2, 27, <<0, 255, 200>>, w, h)>>
            ELSE << >>)
        \o (IF f.visibility # << >>
            THEN <<draw_text("visibility",
                             IF f.visibility[1] >= 100
                             THEN <<"V", " ", "1", "0", "S", "M">>
                             ELSE <<"V", " ">> \o Decimal(f.visibility[1] \div 10)
                                      \o <<".">> \o Decimal(f.visibility[1] % 10)
                                      \o <<"S", "M">>,
                             2, 35, <<100, 200, 255>>, w, h)>>
            ELSE << >>)
        \o (IF f.ceiling # << >>
            THEN <<draw_text("ceiling",
                             <<"C", " ">> \o Format03d(f.ceiling[1] \div 100),
                             2, 43, <<255, 150, 255>>, w, h)>>
            ELSE <<draw_text("ceiling", <<"C", " ", "C", "L", "R">>,
                             2, 43, <<100, 100, 100>>, w, h)>>)
        \o (IF f.conditions # << >>
            THEN <<draw_text("conditions",
                             Take(JoinSpace(Take(f.conditions, 2)), 10),
                             2, 51, <<200, 200, 200>>, w, h)>>
            ELSE << >>)

\* one call of create_metar_display on a renderer of size w x h; a behaviour
\* of MetarSpec is a single call
RenderMetar ==
    /\ call = NoCall
    /\ \E w \in ConfigSizes, h \in ConfigSizes, st \in Stations,
          f \in MetarFields, fr \in CategoryInputs :
          call' = [fn |-> "create_metar_display", width |-> w, height |-> h,
                   station |-> st, fields |-> f, flight_rules |-> fr,
                   ops |-> create_metar_display(st, f, fr, w, h),
                   outcome |-> "returned"]
    /\ UNCHANGED <<prog, hist>>

MetarSpec == Constructed /\ [][RenderMetar]_vars

\* ======================================================== weather icon
TS == <<"T", "S">>
SN == <<"S", "N">>
SG == <<"S", "G">>
DZ == <<"D", "Z">>
FG == <<"F", "G">>
\* the condition codes lists are built from in IconSpec
ConditionCodes == {TS, TSRA, SN, SG, RA, DZ, FG, BR, HZ}
ConditionLists == StringsUpTo(ConditionCodes, MaxConds)
\* flight_rules arguments of get_weather_icon
IconCategories == {VFR, MVFR, IFR, LIFR, UNKNOWN}

\* Python's "pat in t" for strings
Contains(t, pat) ==
    \E i \in 1..(Len(t) - Len(pat) + 1) : SubSeq(t, i, i + Len(pat) - 1) = pat

\* "for cond in conditions:" of get_weather_icon: the name returned from
\* inside the loop, "" when the loop ends without returning
RECURSIVE icon_loop(_)
icon_loop(conditions) ==
    IF conditions = << >> THEN ""
    ELSE LET cond == Head(conditions)
         IN  IF Contains(cond, TS) THEN "thunderstorm"
             ELSE IF Contains(cond, SN) \/ Contains(cond, SG) THEN "snow"
             ELSE IF Contains(cond, RA) \/ Contains(cond, DZ) THEN "rain"
             ELSE IF Contains(cond, FG) \/ Contains(cond, BR) THEN "fog"
             ELSE icon_loop(Tail(conditions))

\* get_weather_icon
get_weather_icon(conditions, flight_rules) ==
    IF conditions = << >>
    THEN IF flight_rules = VFR THEN "clear" ELSE "cloudy"
    ELSE IF icon_loop(conditions) # "" THEN icon_loop(conditions)
    ELSE IF flight_rules = VFR THEN "clear"
    ELSE IF flight_rules \in {MVFR, IFR, LIFR} THEN "cloudy"
    ELSE "unknown"

\* one call of get_weather_icon; a behaviour of IconSpec is a single call
ClassifyIcon ==
    /\ call = NoCall
    /\ \E c \in ConditionLists, fr \in IconCategories :
          call' = [fn |-> "get_weather_icon", conditions |-> c, flight_rules |-> fr,
                   result |-> get_weather_icon(c, fr)]
    /\ UNCHANGED <<prog, hist>>

IconSpec == Constructed /\ [][ClassifyIcon]_vars

\* ======================================================== repeated rendering
\* The state of a DisplayRenderer: what __init__ stores in self
RendererState(w, h) ==
    [width |-> w, height |-> h, icons |-> "AviationIcons", font |-> "Font5x7"]
\* the renderer sizes the repository builds: DisplayRenderer() and
\* simulator.py's 64 x 64, and the 64 x 32 of main.py's display
RepoSizes == {<<64, 64>>, <<64, 32>>}
\* Image.new('RGB', (width, height), (0, 0, 0)): nothing drawn yet
NewImage == << >>
NoTaf == [kind |-> "None", forecast |-> << >>]

\* arguments of one create_metar_display or create_taf_display call
PairArgs ==
    {[layout |-> "metar", station |-> <<"K", "A", "T", "L">>, flight_rules |-> fr,
      frame |-> fm, fields |-> f, taf_data |-> NoTaf] :
        fr \in {VFR, IFR}, fm \in {0, AnimFrames - 1}, f \in MetarFields}
    \cup
    {[layout |-> "taf", station |-> <<"K", "A", "T", "L">>, flight_rules |-> fr,
      frame |-> fm, fields |-> FieldsNone, taf_data |-> t] :
        fr \in {VFR, IFR}, fm \in {0, AnimFrames - 1},
        t \in {NoTaf, [kind |-> "dict", forecast |-> <<PeriodFull, PeriodParsed>>],
                [kind |-> "dict", forecast |-> <<PeriodEmpty>>]}}

\* a layout call as it would be if the renderer kept drawing on the image of
\* its previous call, remembered in self
RenderCall_sharedImage(renderer, a) ==
    LET kept == IF "img" \in DOMAIN renderer THEN renderer.img ELSE NewImage
        img == kept \o
               (IF a.layout = "metar"
                THEN create_metar_display(a.station, a.fields, a.flight_rules,
                                          renderer.width, renderer.height)
                ELSE create_taf_display(a.station, a.taf_data, a.flight_rules,
                                        renderer.width, renderer.height))
    IN  [img |-> img,
         renderer |-> [width |-> renderer.width, height |-> renderer.height,
                       icons |-> renderer.icons, font |-> renderer.font,
                       img |-> img]]

\* One create_metar_display / create_taf_display call on a renderer: the
\* image returned and the renderer's state afterwards.  Each call starts from
\* Image.new, reads self.width and self.height, ignores frame and assigns
\* nothing to self.
RenderCall(renderer, a) ==
    [img |-> NewImage \o
             (IF a.layout = "metar"
              THEN create_metar_display(a.station, a.fields, a.flight_rules,
                                        renderer.width, renderer.height)
              ELSE create_taf_display(a.station, a.taf_data, a.flight_rules,
                                      renderer.width, renderer.height)),
     renderer |-> renderer]

\* the first layout call on a newly built renderer
RenderFirst ==
    /\ call = NoCall
    /\ \E size \in RepoSizes, a \in PairArgs :
          LET r0 == RendererState(size[1], size[2])
              out == RenderCall(r0, a)
          IN  call' = [fn |-> "render_once", built |-> r0, first_args |-> a,
                       first_img |-> out.img, renderer |-> out.renderer]
    /\ UNCHANGED <<prog, hist>>

\* the second layout call on the same renderer
RenderSecond ==
    /\ call.fn = "render_once"
    /\ \E a \in PairArgs :
          LET out == RenderCall(call.renderer, a)
          IN  call' = [fn |-> "render_twice", built |-> call.built,
                       first_args |-> call.first_args, first_img |-> call.first_img,
                       second_args |-> a, second_img |-> out.img,
                       renderer |-> out.renderer]
    /\ UNCHANGED <<prog, hist>>

PairSpec == Constructed /\ [][RenderFirst \/ RenderSecond]_vars

\* ======================================================== icon stamping
\* the pixel coordinates of a w x h image
Pixels(w, h) == (0..(w - 1)) \X (0..(h - 1))
\* images the icon is stamped on: all black, and one whose pixels all differ
BlackImage(w, h) == [p \in Pixels(w, h) |-> <<0, 0, 0>>]
PatternImage(w, h) == [p \in Pixels(w, h) |-> <<p[1] + 1, p[2] + 1, 7>>]
\* icon bitmaps: lists of rows of 0/1 cells
Bitmaps ==
    { <<<<1, 0>>, <<0, 1>>>>,
      <<<<1, 1>>, <<1, 1>>>>,
      <<<<0, 0>>, <<0, 0>>>>,
      <<<<0, 1, 1>>>>,
      <<<<1>>, <<0>>, <<1>>>> }
\* the cells of a bitmap in the order the two loops visit them
RECURSIVE RowCells(_, _, _)
RowCells(row, row_idx, col_idx) ==
    IF col_idx >= Len(row) THEN << >>
    ELSE <<[row_idx |-> row_idx, col_idx |-> col_idx, pixel |-> row[col_idx + 1]]>>
            \o RowCells(row, row_idx, col_idx + 1)
RECURSIVE IconCells(_, _)
IconCells(icon, row_idx) ==
    IF row_idx >= Len(icon) THEN << >>
    ELSE RowCells(icon[row_idx + 1], row_idx, 0) \o IconCells(icon, row_idx + 1)

\* pixels[px, py] = color through PIL's pixel access: a negative index
\* counts from the far edge, an index outside the image raises IndexError
SetPixel(out, px, py, color, w, h) ==
    LET ax == IF px < 0 THEN px + w ELSE px
        ay == IF py < 0 THEN py + h ELSE py
    IN  IF ax \in 0..(w - 1) /\ ay \in 0..(h - 1)
        THEN [img |-> [out.img EXCEPT ![<<ax, ay>>] = color], raised |-> out.raised]
        ELSE [img |-> out.img, raised |-> TRUE]

\* the loop body of _draw_icon as it would be without the bounds test
RECURSIVE stamp_noBoundsTest(_, _, _, _, _, _, _)
stamp_noBoundsTest(out, cells, x, y, color, w, h) ==
    IF cells = << >> \/ out.raised THEN out
    ELSE LET cell == Head(cells)
             draw_x == x + cell.col_idx
             draw_y == y + cell.row_idx
         IN  stamp_noBoundsTest(
                 IF cell.pixel # 0
                 THEN SetPixel(out, draw_x, draw_y, color, w, h)
                 ELSE out,
                 Tail(cells), x, y, color, w, h)

\* the loop body of _draw_icon over the remaining cells
RECURSIVE stamp(_, _, _, _, _, _, _)
stamp(out, cells, x, y, color, w, h) ==
    IF cells = << >> \/ out.raised THEN out
    ELSE LET cell == Head(cells)
             draw_x == x + cell.col_idx
             draw_y == y + cell.row_idx
         IN  stamp(IF cell.pixel # 0 /\ 0 <= draw_x /\ draw_x < w
                                     /\ 0 <= draw_y /\ draw_y < h
                   THEN SetPixel(out, draw_x, draw_y, color, w, h)
                   ELSE out,
                   Tail(cells), x, y, color, w, h)

\* _draw_icon as it would be without "if 0 <= draw_x < self.width and ..."
draw_icon_noBoundsTest(img, icon, x, y, color, w, h) ==
    stamp_noBoundsTest([img |-> img, raised |-> FALSE], IconCells(icon, 0),
                       x, y, color, w, h)

\* DisplayRenderer._draw_icon on a renderer of size w x h
draw_icon(img, icon, x, y, color, w, h) ==
    stamp([img |-> img, raised |-> FALSE], IconCells(icon, 0), x, y, color, w, h)

\* one call of _draw_icon; a behaviour of StampSpec is a single call
StampIcon ==
    /\ call = NoCall
    /\ \E w \in 1..MaxBufSide, h \in 1..MaxBufSide, icon \in Bitmaps,
          x \in (0 - MaxBufSide)..(2 * MaxBufSide),
          y \in (0 - MaxBufSide)..(2 * MaxBufSide) :
          \E img \in {BlackImage(w, h), PatternImage(w, h)} :
             LET out == draw_icon(img, icon, x, y, <<0, 200, 255>>, w, h)
             IN  call' = [fn |-> "_draw_icon", width |-> w, height |-> h,
                          before |-> img, icon |-> icon, x |-> x, y |-> y,
                          color |-> <<0, 200, 255>>,
                          after |-> out.img, raised |-> out.raised]
    /\ UNCHANGED <<prog, hist>>

StampSpec == Constructed /\ [][StampIcon]_vars

\* ======================================================== text placement
\* columns of a glyph cell
GlyphCols == 5
\* the characters the font defines a glyph for: letters, digits and the
\* punctuation the layouts draw
FontChars ==
    {Uppercase[i] : i \in 1..26} \cup {DigitChars[i] : i \in 1..10}
        \cup {" ", ":", "/", "-", "."}
\* Font5x7.get_char: the glyph of a character, a blank glyph of the same
\* cell size for a character the font does not define
get_char(c) ==
    [r \in 1..GlyphRows |-> [k \in 1..GlyphCols |-> IF c \in FontChars THEN 1 ELSE 0]]
\* Python truth value of a list
Truthy(list) == Len(list) > 0
\* the characters texts are built from in TextSpec; "~" and "#" have no glyph
TextChars == {"A", "1", " ", "~", "#"}
TextColumns == {0 - 7, 0, 2, 60}

\* the loop of _draw_text as it would be with "x_offset += 5 * scale"
RECURSIVE text_placements_advance5(_, _, _)
text_placements_advance5(text, x, x_offset) ==
    IF text = << >> THEN << >>
    ELSE LET char_pattern == get_char(Head(text))
         IN  IF Truthy(char_pattern)
             THEN <<[char |-> Head(text), left |-> x + x_offset,
                     pattern |-> char_pattern]>>
                     \o text_placements_advance5(Tail(text), x, x_offset + 5)
             ELSE text_placements_advance5(Tail(text), x, x_offset)

\* "for char in str(text)" of _draw_text (scale 1): the glyphs stamped with
\* the column of their left edge; the pen advances inside "if char_pattern:"
RECURSIVE text_placements(_, _, _)
text_placements(text, x, x_offset) ==
    IF text = << >> THEN << >>
    ELSE LET char_pattern == get_char(Head(text))
         IN  IF Truthy(char_pattern)
             THEN <<[char |-> Head(text), left |-> x + x_offset,
                     pattern |-> char_pattern]>>
                     \o text_placements(Tail(text), x, x_offset + GlyphAdvance)
             ELSE text_placements(Tail(text), x, x_offset)

\* one call of _draw_text; a behaviour of TextSpec is a single call
PlaceText ==
    /\ call = NoCall
    /\ \E text \in StringsUpTo(TextChars, MaxTextLen), x \in TextColumns :
          call' = [fn |-> "_draw_text", text |-> text, x |-> x,
                   placed |-> text_placements(text, x, 0)]
    /\ UNCHANGED <<prog, hist>>

TextSpec == Constructed /\ [][PlaceText]_vars

\* ------------------------------------------------------- step predicates
\* the step is an execution of update() (initial or inside the loop)
UpdateStep == pc \in {"initial_update", "update"} /\ pc' \in {"loop", "render"}
\* the step is an execution of render() inside the loop
RenderStep == pc = "render" /\ pc' = "pace"
\* the step called the data source
FetchStep == ops' # ops /\ Len(ops') > 0 /\ ops'[Len(ops')] = "fetch"
\* loop ticks rendered since the first snapshot was obtained, modulo ModeTicks
\* (mode_timer counts those that ran the mode logic, stalled those that did not)
TicksSinceFirstSnapshot == (mode_timer + stalled) % ModeTicks

\* ----------------------------------------------------------------- C1
\* C1: a refresh that returns no snapshot leaves current_weather unchanged
\* and one that returns no forecast leaves current_taf unchanged, so that at
\* all times they are the last snapshot and the last forecast the data source
\* returned.
C1_FailedRefreshKeepsData ==
    /\ current_weather = goodWeather
    /\ current_taf = goodTaf

\* ----------------------------------------------------------------- C2
\* C2: the frame a tick presents is the "LOADING" layout if and only if no
\* refresh has ever returned a snapshot; after one has, every tick presents
\* METAR or TAF.
C2_LoadingIffNeverSnapshot ==
    pc = "pace" => /\ (shown = "LOADING" <=> ~everSnapshot)
                   /\ (everSnapshot => shown \in {"METAR", "TAF"})

\* ----------------------------------------------------------------- C3
\* C3: update() calls the data source exactly when
\* now - last_update >= update_interval, nothing else calls it, every attempt
\* (successful or failed) sets last_update to now, and an attempt never comes
\* sooner than update_interval after the previous one.
C3_RefreshGating ==
    [][ /\ (FetchStep => UpdateStep)
        /\ (UpdateStep =>
              (FetchStep <=> clock - last_update >= update_interval))
        /\ (FetchStep => last_update' = clock /\ lastAttemptAt' = clock)
        /\ (FetchStep /\ lastAttemptAt # None =>
              clock - lastAttemptAt >= update_interval)
        /\ (~FetchStep => last_update' = last_update)
      ]_vars

\* a failed attempt was made, time has passed, and the current tick's update()
\* did not call the data source again
C3_Witness ==
    /\ pc = "render"
    /\ current_weather = None
    /\ lastAttemptAt # None
    /\ last_update = lastAttemptAt
    /\ clock > last_update
    /\ ops[Len(ops)] = "update"

\* ----------------------------------------------------------------- C4
\* C4: with a snapshot available a render tick adds one to mode_timer; the
\* tick on which it reaches 150 flips display_mode between 0 and 1 and resets
\* mode_timer to 0; nothing else changes display_mode or mode_timer, and a
\* flip comes exactly 150 METAR/TAF frames after the previous one.
C4_ModeAlternation ==
    [][ /\ (RenderStep /\ current_weather # None /\ mode_timer + 1 < ModeTicks
              => mode_timer' = mode_timer + 1 /\ display_mode' = display_mode)
        /\ (RenderStep /\ current_weather # None /\ mode_timer + 1 >= ModeTicks
              => /\ mode_timer' = 0
                 /\ display_mode' = 1 - display_mode
                 /\ display_mode' \in {0, 1}
                 /\ sinceFlip + 1 = ModeTicks)
        /\ (~(RenderStep /\ current_weather # None)
              => mode_timer' = mode_timer /\ display_mode' = display_mode)
      ]_vars

\* the mode has flipped to TAF and back: two flips have happened
C4_Witness ==
    /\ pc = "pace"
    /\ display_mode = 0
    /\ mode_timer = 0
    /\ sinceFlip = 0
    /\ shown = "METAR"

\* ----------------------------------------------------------------- C5
\* C5: the ticks on which display_mode flips do not depend on the refresh
\* interval or on the outcome of refreshes after the first snapshot: counted
\* from the first snapshot, the mode flips on ticks 150, 300, ... and on no
\* other tick.
C5_FlipsIndependentOfRefresh ==
    [][ RenderStep /\ everSnapshot =>
          (display_mode' # display_mode
             <=> (TicksSinceFirstSnapshot + 1) % ModeTicks = 0)
      ]_vars

\* ----------------------------------------------------------------- C6
\* C6 (as stated): with a data source that never yields a snapshot every
\* tick presents the loading layout and display_mode still flips every 150
\* ticks, the first time on the 150th tick.
C6_ModeAlternatesWhileLoading ==
    [][ RenderStep /\ ~everSnapshot =>
          /\ shown' = "LOADING"
          /\ (loadingTicks + 1 = ModeTicks /\ loadingTicks' = ModeTicks
                => display_mode' # display_mode)
      ]_vars

\* C6 (amended): with a data source that never yields a snapshot every tick
\* presents the loading layout and the mode logic is skipped: display_mode
\* stays 0, mode_timer stays 0 and no flip ever happens.
C6_NoModeLogicWhileLoading ==
    ~everSnapshot =>
        /\ display_mode = 0
        /\ mode_timer = 0
        /\ sinceFlip = 0
        /\ (rendered /\ pc \in {"pace", "loop", "update"} => shown = "LOADING")
        /\ shown \in {"nothing", "AVWX HUD", "LOADING", "cleared"}

\* 150 ticks have presented the loading layout without any snapshot
C6_Witness ==
    /\ ~everSnapshot
    /\ fetched
    /\ loadingTicks = ModeTicks
    /\ shown = "LOADING"

\* ----------------------------------------------------------------- C7
\* C7: every tick that presents a frame, loading frames included, advances
\* animation_frame to (animation_frame + 1) mod 60, and nothing else changes
\* animation_frame.
C7_AnimationAdvancesEveryTick ==
    [][ /\ (RenderStep => animation_frame' = (animation_frame + 1) % AnimFrames)
        /\ (~RenderStep => animation_frame' = animation_frame)
      ]_vars

\* ----------------------------------------------------------------- C8
\* C8: whenever run() has ended, by a stop poll or by an interrupt at any
\* point after entry (the startup hold and the initial refresh included), the
\* last thing done to the display was clear(): a run that has put a frame on
\* the display never ends with that frame still showing.
C8_ClearOnEveryExit ==
    pc \in {"returned", "raised"} /\ firstShown # "nothing" => shown = "cleared"

\* ----------------------------------------------------------------- C9
\* C9: inside a tick the operations come in the order stop poll, update
\* (with its fetch, if due), render, present, pace, each at most once; a tick
\* whose stop poll reports stop performs nothing after the poll.
Rank(op) ==
    CASE op = "poll" -> 1
      [] op = "update" -> 2
      [] op = "fetch" -> 3
      [] op = "render" -> 4
      [] op = "present" -> 5
      [] op = "pace" -> 6

Has(op) == \E i \in 1..Len(ops) : ops[i] = op

C9_TickOrder ==
    /\ \A i, j \in 1..Len(ops) : i < j => Rank(ops[i]) < Rank(ops[j])
    /\ (Has("fetch") => Has("update"))
    /\ (Has("render") => Has("update"))
    /\ (Has("present") => Has("render"))
    /\ (Has("pace") => Has("present"))
    /\ (pc \in {"update", "render", "pace"} =>
          (Has("poll") <=> HasCheckEvents(sink)))
    /\ (pc = "render" => Has("update") /\ ~Has("render"))
    /\ (pc = "pace" => Has("present") /\ ~Has("pace"))
    /\ (pc = "loop" /\ rendered => Has("pace"))
    /\ (stopped => ops = <<"poll">> /\ pc \in {"finally", "close", "returned", "raised"})

\* a complete tick has run and a later tick's stop poll reported stop
C9_Witness ==
    /\ stopped
    /\ rendered
    /\ fetched
    /\ pc = "returned"

\* ---------------------------------------------------------------- C10
\* C10: the first thing run() gives the display is the "AVWX HUD" startup
\* layout, before any call to the data source, and the first refresh attempt
\* is made before the first loop tick renders.
C10_StartupBeforeFetchBeforeRender ==
    /\ firstShown \in {"nothing", "AVWX HUD"}
    /\ (fetched => firstShown = "AVWX HUD")
    /\ (pc \in {"loop", "update", "render", "pace"} => fetched)
    /\ (rendered => fetched)

\* a loop tick has rendered after the startup frame and the first attempt
C10_Witness ==
    /\ rendered
    /\ fetched
    /\ firstShown = "AVWX HUD"
    /\ shown \in {"LOADING", "METAR"}

\* ---------------------------------------------------------------- C11
\* C11: the loop is left only because check_events() returned False or
\* because an interrupt arrived; a False stop poll ends the loop in that very
\* tick; and unless one of the two happens the loop goes on for ever: again
\* and again a tick reaches its render.
C11_LoopLeftOnlyOnStopSignal ==
    /\ [][ (pc \in LoopPcs /\ pc' \notin LoopPcs) =>
             ((pc = "loop" /\ ~stopped /\ stopped')
                 \/ (~interrupted /\ interrupted')) ]_vars
    /\ [](stopped => pc \notin LoopPcs)
    /\ []<>(pc = "render" \/ stopped \/ interrupted)

\* 149 ticks have run, no stop signal has come and the loop is at its head
C11_Witness ==
    /\ pc = "loop"
    /\ mode_timer = ModeTicks - 1
    /\ ~stopped
    /\ ~interrupted

\* ---------------------------------------------------------------- C12
\* C12: every buffer the controller presents to the display has exactly the
\* width and height the display was configured with.
C12_BufferMatchesSink ==
    call.fn = "show_image" =>
        /\ call.img_width = call.width
        /\ call.img_height = call.height

\* ---------------------------------------------------------------- C13
\* the argument of the call is a string of exactly four decimal digits
IsHHMM(t) == Len(t) = 4 /\ \A i \in 1..4 : IsDigit(t[i])
HourOf(t) == 10 * DigitVal(t[1]) + DigitVal(t[2])
\* "hh:MM" with hh = (HH - 6 + 24) mod 24, two digits, minutes as given
ExpectedCst(t) ==
    LET hh == (HourOf(t) - 6 + 24) % 24
    IN  <<DigitChars[(hh \div 10) + 1], DigitChars[(hh % 10) + 1], ":",
          t[3], t[4]>>
\* the hour the result shows
ResultHour(r) == 10 * DigitVal(r[1]) + DigitVal(r[2])

\* C13 (as stated): for every string of four decimal digits HHMM the result
\* is "hh:MM" with hh = (HH - 6 + 24) mod 24 and the minutes unchanged, and
\* the hour returned is in 0..23.
C13_CstForEveryFourDigits ==
    call.fn = "_convert_to_cst_24hr" /\ IsHHMM(call.utc_time_str) =>
        /\ call.result = ExpectedCst(call.utc_time_str)
        /\ ResultHour(call.result) \in 0..23

\* C13 (amended): the same for every string of four decimal digits whose
\* hour HH is at most 29, which covers every time of day 00..23; "1823" gives
\* "12:23" and "0300" gives "21:00".
C13_CstForHoursUpTo29 ==
    call.fn = "_convert_to_cst_24hr" =>
        /\ (IsHHMM(call.utc_time_str) /\ HourOf(call.utc_time_str) <= 29 =>
              /\ call.result = ExpectedCst(call.utc_time_str)
              /\ ResultHour(call.result) \in 0..23)
        /\ (call.utc_time_str = <<"1", "8", "2", "3">> =>
              call.result = <<"1", "2", ":", "2", "3">>)
        /\ (call.utc_time_str = <<"0", "3", "0", "0">> =>
              call.result = <<"2", "1", ":", "0", "0">>)

\* "0300" was converted: the hour wrapped to the previous day
C13_Witness ==
    /\ call.fn = "_convert_to_cst_24hr"
    /\ call.utc_time_str = <<"0", "3", "0", "0">>
    /\ call.result = <<"2", "1", ":", "0", "0">>

\* ---------------------------------------------------------------- C14
\* C14: for every start-time string with fewer than four characters or whose
\* first four characters are not all decimal digits, the result is the empty
\* string.
C14_MalformedGivesEmpty ==
    call.fn = "_convert_to_cst_24hr" =>
        LET t == call.utc_time_str
        IN  (Len(t) < 4 \/ \E i \in 1..4 : ~IsDigit(t[i])) => call.result = << >>

\* ---------------------------------------------------------------- C15
\* the drawing operations of the call of a given kind
OpsOf(what) == {i \in 1..Len(call.ops) : call.ops[i].what = what}

\* C15: for every forecast list and every buffer height H, create_taf_display
\* draws blocks for at most 5 forecast periods, and every pixel it writes has
\* a row index y with 0 <= y < H.
C15_TafWithinBuffer ==
    call.fn = "create_taf_display" =>
        /\ Cardinality(OpsOf("block_bar")) <= 5
        /\ \A i \in 1..Len(call.ops) :
              \A r \in call.ops[i].rows : 0 <= r /\ r < call.height

\* six periods with wind on a buffer tall enough for six blocks: five blocks
\* were drawn, each with its wind line
C15_Witness ==
    /\ call.fn = "create_taf_display"
    /\ Len(call.taf_data.forecast) = 6
    /\ call.height >= FirstBlockRow + 6 * BlockHeight
    /\ Cardinality(OpsOf("block_bar")) = 5
    /\ Cardinality(OpsOf("wind")) = 5

\* ---------------------------------------------------------------- C16
\* C16: when the forecast is absent or its period list is empty,
\* create_taf_display draws the header bar, the "TAF" label, the station code
\* and the fixed "NO TAF" message, draws no period block, and returns.
C16_NoTafMessage ==
    call.fn = "create_taf_display" /\ call.taf_data.forecast = << >> =>
        /\ call.outcome = "returned"
        /\ Len(call.ops) = 4
        /\ call.ops[1].what = "header_bar"
        /\ call.ops[1].color = get_flight_rules_color(call.flight_rules)
        /\ call.ops[2].text = <<"T", "A", "F">>
        /\ call.ops[3].text = Take(call.station, 4)
        /\ call.ops[4].text = <<"N", "O", " ", "T", "A", "F">>
        /\ call.ops[4].x = 2 /\ call.ops[4].y = 20
        /\ OpsOf("block_bar") = {}

\* a TAF dict whose forecast list is empty was rendered
C16_Witness ==
    /\ call.fn = "create_taf_display"
    /\ call.taf_data.kind = "dict"
    /\ call.taf_data.forecast = << >>
    /\ OpsOf("message") # {}

\* ---------------------------------------------------------------- C17
\* C17: for every flight-category value the current-conditions layout uses
\* one and the same color for the header bar and for the category badge, equal
\* to the table VFR (0,255,0), MVFR (0,0,255), IFR (255,0,0), LIFR
\* (255,0,255); every value that is none of the four names (in any letter
\* case), the empty string and the default of a missing key included, renders
\* gray (128,128,128), and the call returns.
C17_BarAndBadgeColor ==
    call.fn = "create_metar_display" =>
        LET bar == call.ops[1]
            badge == call.ops[4]
            fr == call.flight_rules
        IN  /\ call.outcome = "returned"
            /\ bar.what = "header_bar" /\ badge.what = "badge"
            /\ badge.text = Take(fr, 4)
            /\ bar.color = badge.color
            /\ fr = VFR => bar.color = <<0, 255, 0>>
            /\ fr = MVFR => bar.color = <<0, 0, 255>>
            /\ fr = IFR => bar.color = <<255, 0, 0>>
            /\ fr = LIFR => bar.color = <<255, 0, 255>>
            /\ UpperStr(fr) \notin {VFR, MVFR, IFR, LIFR} => bar.color = <<128, 128, 128>>

\* the layout was drawn for a snapshot without a category: bar and badge gray
C17_Witness ==
    /\ call.fn = "create_metar_display"
    /\ call.flight_rules = UNKNOWN
    /\ call.ops[1].color = <<128, 128, 128>>
    /\ call.ops[4].color = <<128, 128, 128>>
    /\ call.ops[4].text = UNKN

\* ---------------------------------------------------------------- C18
\* some code of the list contains one of the keywords
AnyContains(conditions, keywords) ==
    \E i \in 1..Len(conditions) : \E k \in keywords : Contains(conditions[i], k)

\* C18: get_weather_icon classifies by priority over the whole condition
\* list, whatever the order of the codes: thunderstorm if any code contains
\* "TS"; otherwise snow if any contains "SN" or "SG"; otherwise rain if any
\* contains "RA" or "DZ"; otherwise fog if any contains "FG" or "BR".
C18_IconPriorityOverList ==
    call.fn = "get_weather_icon" =>
        LET c == call.conditions
        IN  IF AnyContains(c, {TS}) THEN call.result = "thunderstorm"
            ELSE IF AnyContains(c, {SN, SG}) THEN call.result = "snow"
            ELSE IF AnyContains(c, {RA, DZ}) THEN call.result = "rain"
            ELSE IF AnyContains(c, {FG, BR}) THEN call.result = "fog"
            ELSE TRUE

\* ---------------------------------------------------------------- C19
\* C19: when no condition code matches a weather keyword (empty list or only
\* unmatched codes), get_weather_icon returns clear for category VFR and
\* cloudy for every other category, UNKNOWN included; and for all inputs the
\* result is one of clear, cloudy, rain, snow, thunderstorm, fog.
C19_IconDefaultByCategory ==
    call.fn = "get_weather_icon" =>
        /\ ~AnyContains(call.conditions, {TS, SN, SG, RA, DZ, FG, BR}) =>
              call.result = (IF call.flight_rules = VFR THEN "clear" ELSE "cloudy")
        /\ call.result \in {"clear", "cloudy", "rain", "snow", "thunderstorm", "fog"}

\* ---------------------------------------------------------------- C20
\* C20 (as stated): in the current-conditions layout the header bar is
\* exactly 2 pixels tall: it paints rows 0 and 1 across the full buffer width
\* with the flight-category color and paints no pixel in row 2 or below.
C20_HeaderBarTwoRows ==
    call.fn = "create_metar_display" =>
        /\ call.ops[1].what = "header_bar"
        /\ call.ops[1].rows = {0, 1}
        /\ call.ops[1].cols = 0..(call.width - 1)
        /\ call.ops[1].color = get_flight_rules_color(call.flight_rules)

\* C20 (amended): the header bar is exactly 3 pixels tall: it paints rows 0,
\* 1 and 2 across the full buffer width with the flight-category color and
\* paints no pixel in row 3 or below.
C20_HeaderBarThreeRows ==
    call.fn = "create_metar_display" =>
        /\ call.ops[1].what = "header_bar"
        /\ call.ops[1].rows = {0, 1, 2}
        /\ call.ops[1].cols = 0..(call.width - 1)
        /\ call.ops[1].color = get_flight_rules_color(call.flight_rules)
        /\ \A i \in 2..Len(call.ops) : call.ops[i].what # "header_bar"

\* the layout was drawn for an IFR snapshot on a 64 x 32 buffer
C20_Witness ==
    /\ call.fn = "create_metar_display"
    /\ call.width = 64 /\ call.height = 32
    /\ call.flight_rules = IFR
    /\ call.ops[1].rows = {0, 1, 2}
    /\ call.ops[1].color = Red

\* ---------------------------------------------------------------- C21
\* C21: in the current-conditions layout each field's band depends only on
\* the presence of its own data: the temperature is drawn whenever temperature
\* is present and the dewpoint whenever dewpoint is present, each regardless
\* of the other, and an absent field is omitted.
C21_BandsDependOnOwnField ==
    call.fn = "create_metar_display" =>
        /\ call.fields.temperature # << >> =>
              \E i \in OpsOf("temperature") :
                  Contains(call.ops[i].text, IntStr(call.fields.temperature[1]))
        /\ call.fields.dewpoint # << >> =>
              \E i \in OpsOf("temperature") :
                  Contains(call.ops[i].text, IntStr(call.fields.dewpoint[1]))
        /\ call.fields.temperature = << >> /\ call.fields.dewpoint = << >> =>
              OpsOf("temperature") = {}

\* ---------------------------------------------------------------- C22
\* C22: for every buffer height H (32 included), create_metar_display stops
\* adding bands once the next band would exceed the buffer height: it issues
\* no draw for a band whose rows would extend to or past row H.
C22_MetarBandsStopAtHeight ==
    call.fn = "create_metar_display" =>
        \A i \in 1..Len(call.ops) :
            call.ops[i].what \in {"temperature", "wind", "visibility", "ceiling",
                                  "conditions"} =>
                call.ops[i].y + GlyphRows - 1 < call.height

\* ---------------------------------------------------------------- C23
\* C23: for every snapshot, the current-conditions frame the controller
\* presents contains the weather icon selected by
\* get_weather_icon(conditions, category), in the variant of the current
\* animation phase.
C23_MetarShowsWeatherIcon ==
    call.fn = "create_metar_display" =>
        \E i \in 1..Len(call.ops) :
            /\ call.ops[i].what = "weather_icon"
            /\ call.ops[i].icon = get_weather_icon(call.fields.conditions,
                                                   call.flight_rules)

CellSetAt(icon, x, y, p) ==
    \E r \in 1..Len(icon) : \E c \in 1..Len(icon[r]) :
        icon[r][c] # 0 /\ p = <<x + c - 1, y + r - 1>>

\* C25: _draw_icon(img, bitmap, x, y, color), for any integer x and y,
\* negative and beyond-buffer values included, sets to color exactly the
\* pixels (x+col, y+row) inside [0,W) x [0,H) whose bitmap cell is set,
\* leaves every other pixel unchanged, and never raises.
C25_IconStampClipped ==
    call.fn = "_draw_icon" =>
        /\ ~call.raised
        /\ DOMAIN call.after = Pixels(call.width, call.height)
        /\ \A p \in Pixels(call.width, call.height) :
              call.after[p] = IF CellSetAt(call.icon, call.x, call.y, p)
                              THEN call.color
                              ELSE call.before[p]

\* an icon hanging over the left and top edges was stamped on a patterned
\* image: one of its set cells landed on pixel (0,0), another fell outside
C25_Witness ==
    /\ call.fn = "_draw_icon"
    /\ call.x = 0 - 1 /\ call.y = 0 - 1
    /\ call.icon = <<<<1, 0>>, <<0, 1>>>>
    /\ call.before = PatternImage(call.width, call.height)
    /\ call.width = 2 /\ call.height = 2
    /\ call.after[<<0, 0>>] = call.color
    /\ call.after[<<1, 1>>] = call.before[<<1, 1>>]

\* ---------------------------------------------------------------- C26
\* C26: _draw_text places the i-th character of the text (from 0) with its
\* glyph's left column at x + 6*i, for every character of the string: every
\* character, one with no defined glyph (drawn blank) included, advances the
\* pen by the constant 6 pixels.
C26_TextAdvanceConstant ==
    call.fn = "_draw_text" =>
        /\ Len(call.placed) = Len(call.text)
        /\ \A i \in 1..Len(call.text) :
              /\ call.placed[i].char = call.text[i]
              /\ call.placed[i].left = call.x + 6 * (i - 1)

\* a text with a character the font does not define in the middle was drawn:
\* the middle glyph is blank and the last one stands two advances to the right
C26_Witness ==
    /\ call.fn = "_draw_text"
    /\ call.text = <<"A", "~", "1">>
    /\ call.x = 2
    /\ call.placed[2].pattern[1][1] = 0
    /\ call.placed[3].left = 14

\* ---------------------------------------------------------------- C27
\* the left-edge strips of the period blocks, in drawing order
IsBlockBar(op) == op.what = "block_bar"
BlockBars == SelectSeq(call.ops, IsBlockBar)
Max(a, b) == IF a > b THEN a ELSE b

\* C27: for a forecast with n periods and buffer height H, create_taf_display
\* draws exactly min(n, 5, max(0, (H - 11) div 10)) period blocks, in list
\* order, the i-th block (from 0) starting at row 11 + 10*i; 5 blocks at
\* H = 64 and 2 blocks at H = 32 when the forecast has that many periods.
C27_TafBlockCount ==
    call.fn = "create_taf_display" =>
        LET n == Len(call.taf_data.forecast)
            H == call.height
            k == Min(n, Min(5, Max(0, (H - 11) \div 10)))
        IN  /\ Len(BlockBars) = k
            /\ \A i \in 0..(k - 1) :
                  /\ BlockBars[i + 1].y = 11 + 10 * i
                  /\ BlockBars[i + 1].color =
                        get_flight_rules_color(call.taf_data.forecast[i + 1].flight_rules)
            /\ (H = 64 /\ n >= 5) => Len(BlockBars) = 5
            /\ (H = 32 /\ n >= 2) => Len(BlockBars) = 2

\* six unlike periods on a 32-row buffer: the first two were drawn
C27_Witness ==
    /\ call.fn = "create_taf_display"
    /\ call.height = 32
    /\ Len(call.taf_data.forecast) = 6
    /\ call.taf_data.forecast[1] # call.taf_data.forecast[2]
    /\ Len(BlockBars) = 2
    /\ BlockBars[2].y = 21

\* ---------------------------------------------------------------- C28
\* C28: in every reachable state of the controller, after any sequence of
\* update(), render() and set_airport() calls, display_mode is 0 or 1,
\* 0 <= mode_timer < 150 and 0 <= animation_frame < 60.
C28_ControllerRanges ==
    /\ display_mode \in {0, 1}
    /\ 0 <= mode_timer /\ mode_timer < 150
    /\ 0 <= animation_frame /\ animation_frame < 60

\* after an airport change the controller is one render short of a flip,
\* in TAF mode, with the animation past its first wrap
C28_Witness ==
    /\ airport_code = AirportUpper(OtherAirport)
    /\ display_mode = 1
    /\ mode_timer = 149
    /\ animation_frame = 59
    /\ ops = <<"render">>

\* ---------------------------------------------------------------- C29
\* a step that is a call of render()
ApiRenderStep == ops' = <<"render">> /\ clock' = clock

\* C29: after set_airport(code) last_update is 0 and there is no snapshot, so
\* the next update() fetches unconditionally and render() presents the
\* loading layout until that fetch yields a snapshot; and in any interleaving
\* of set_airport, update and render, every METAR or TAF frame presented is
\* built from a snapshot and a forecast assigned by one and the same refresh
\* attempt, made for the current airport_code.
C29_FramesFromCurrentAirport ==
    /\ [](ops = <<"set_airport">> => current_weather = None /\ last_update = 0)
    /\ [][ (ops = <<"set_airport">> /\ ops' # ops /\ ops'[1] = "update") =>
              ops' = <<"update", "fetch">> ]_vars
    /\ [][ (ApiRenderStep /\ current_weather = None) => shown' = "LOADING" ]_vars
    /\ [][ (ApiRenderStep /\ shown' \in {"METAR", "TAF"}) =>
              (/\ origin.weather # << >>
               /\ origin.weather = origin.taf
               /\ origin.weather[1] = airport_code) ]_vars

\* a frame for the airport set by set_airport is on the display, built from
\* data fetched after the change
C29_Witness ==
    /\ airport_code = AirportUpper(OtherAirport)
    /\ ops = <<"render">>
    /\ shown = "TAF"
    /\ origin.taf[1] = AirportUpper(OtherAirport)
    /\ current_weather # None

TypeOK ==
    /\ pc \in {"startup", "hold", "initial_update", "loop", "update", "render",
               "pace", "finally", "close", "returned", "raised"}
    /\ sink \in Sinks
    /\ update_interval \in Intervals
    /\ clock \in ClockStart..MaxClock
    /\ current_weather \in MetarResults
    /\ current_taf \in TafResults
    /\ last_update \in 0..MaxClock
    /\ animation_frame \in Nat
    /\ display_mode \in Int
    /\ mode_timer \in Nat
    /\ shown \in {"nothing", "AVWX HUD", "LOADING", "METAR", "TAF", "cleared"}
    /\ closed \in BOOLEAN
    /\ airport_code \in {AirportUpper(StartAirport), AirportUpper(OtherAirport)}
====
